---- MODULE Spec2Model ----
(***************************************************************************)
(* Model of the anvil region writer (EmptyEntities), its chunks            *)
(* (EmptyEntitiesChunk), entity serialisation (Entity.save) and the region *)
(* reader (Region).                                                        *)
(*                                                                         *)
(* Python objects are modelled by value plus identity where identity       *)
(* matters: EmptyEntitiesChunk instances live in `heap` and are referred   *)
(* to by their index (a reference); None is the reference 0.  bytes        *)
(* objects are sequences of integers 0..255.  Python's // and % on a       *)
(* positive divisor are \div and % (both floor).                           *)
(***************************************************************************)
EXTENDS Integers, Sequences, FiniteSets, TLC

(* ---------------------------------------------------------------------- *)
(* Bounds of the model                                                     *)
(* ---------------------------------------------------------------------- *)
\* number of EmptyEntitiesChunk instances that are ever constructed
MaxChunks == 2
\* number of entities the chunks of a region may hold in all
MaxEntities == 2
\* number of entries of a property dict drawn for Entity.save
MaxProps == 2

(* ---------------------------------------------------------------------- *)
(* Program constants                                                       *)
(* ---------------------------------------------------------------------- *)
\* one sector of the region file, in bytes
SECTOR == 4096
\* slots of a region: [None] * 1024
NSLOTS == 1024
\* vertical bounds of the world (anvil/constants.py)
YMIN == 0
YMAX == 255
\* EmptyEntitiesChunk.version
DATA_VERSION == 1976

None == 0
Slots == 0..(NSLOTS - 1)

(* ---------------------------------------------------------------------- *)
(* Python values held in an entity's property dict.  Every value is a      *)
(* record of the same shape so that values of different Python types can   *)
(* be compared: t is type(value).__name__, and s, n, l hold the payload of *)
(* a str/float (its literal), an int/bool, and a list.                     *)
(* ---------------------------------------------------------------------- *)
PyStr(s) == [t |-> "str", s |-> s, n |-> 0, l |-> <<>>]
PyInt(n) == [t |-> "int", s |-> "", n |-> n, l |-> <<>>]
PyBool(b) == [t |-> "bool", s |-> "", n |-> IF b THEN 1 ELSE 0, l |-> <<>>]
PyFloat(s) == [t |-> "float", s |-> s, n |-> 0, l |-> <<>>]
PyList(l) == [t |-> "list", s |-> "", n |-> 0, l |-> l]
PyNone == [t |-> "NoneType", s |-> "", n |-> 0, l |-> <<>>]

\* isinstance(value, cls): bool is a subclass of int
isinstance(value, cls) ==
    \/ value.t = cls
    \/ (cls = "int" /\ value.t = "bool")

\* an exception: its class, and the property key its message names ("" if none)
NoError == [type |-> "none", key |-> ""]
Raise(type, key) == [type |-> type, key |-> key]

(* ---------------------------------------------------------------------- *)
(* bytes helpers                                                           *)
(* ---------------------------------------------------------------------- *)
\* bytes(n): n zero bytes (the program asks for at most one sector of them)
ZeroSector == [i \in 1..SECTOR |-> 0]
bytes(n) == SubSeq(ZeroSector, 1, n)

RECURSIVE Pow256(_)
Pow256(k) == IF k = 0 THEN 1 ELSE 256 * Pow256(k - 1)

\* int.to_bytes(length, "big") raises OverflowError when the int does not fit
fits(n, length) == n >= 0 /\ (n \div Pow256(length - 1)) < 256

\* n.to_bytes(length, "big"), for an n that fits
to_bytes(n, length) ==
    [i \in 1..length |-> (n \div Pow256(length - i)) % 256]

\* int.from_bytes(b, byteorder="big")
RECURSIVE from_bytes(_)
from_bytes(b) ==
    IF Len(b) = 0 THEN 0
    ELSE 256 * from_bytes(SubSeq(b, 1, Len(b) - 1)) + b[Len(b)]

\* data[a:b] for 0 <= a (slices clamp to the length, they never raise)
Slice(data, a, b) ==
    SubSeq(data, a + 1, IF b < Len(data) THEN b ELSE Len(data))

\* ceil_div with the division rounding down, as n // d does
floor_div(n, d) == n \div d

\* math.ceil(n / d) for n >= 0, d > 0
ceil_div(n, d) == (n + d - 1) \div d

(* ---------------------------------------------------------------------- *)
(* Inputs the callers draw their arguments from                            *)
(* ---------------------------------------------------------------------- *)
\* region coordinates given to EmptyEntities(x, z)
Regions == {<<0, 0>>, <<1, -1>>}
\* chunk coordinates given to EmptyEntitiesChunk(x, z) and get_chunk(x, z)
ChunkCoords == {<<0, 0>>, <<1, 0>>, <<32, -1>>}
\* block positions given to add_entity(entity_id, x, y, z, ...)
EntityPositions == {<<5, 70, 5>>, <<600, 70, -5>>, <<5, 256, 5>>}
\* property dicts given to add_entity, as (key, value) pairs in insertion order
Villager == << [key |-> "Age", value |-> PyInt(0)],
               [key |-> "Silent", value |-> PyBool(FALSE)] >>
RegionProperties == { Villager, << [key |-> "Tags", value |-> PyList(<<>>)] >> }
\* property dicts given to the entity whose save() is examined on its own:
\* every dict of at most MaxProps items over these keys and values
PropertyKeys == {"Age", "Silent", "Tags"}
PropertyValues ==
    { PyStr("a"), PyInt(3), PyBool(TRUE), PyBool(FALSE), PyFloat("0.5"), PyNone,
      PyList(<<>>), PyList(<<PyStr("a")>>), PyList(<<PyFloat("0.5")>>),
      PyList(<<PyInt(1)>>) }
PropertyItems == [key : PropertyKeys, value : PropertyValues]
PropertyDicts ==
    { d \in UNION { [1..n -> PropertyItems] : n \in 0..MaxProps } :
        \A i, j \in DOMAIN d : i # j => d[i].key # d[j].key }
\* lengths of the byte strings zlib.compress returns (payload = length + 5)
ZlibLengths == {13, 4091, 4092}

(* ---------------------------------------------------------------------- *)
(* State                                                                   *)
(* ---------------------------------------------------------------------- *)
VARIABLES
    x, z,              \* EmptyEntities.x, EmptyEntities.z
    entities_chunks,   \* EmptyEntities.entities_chunks: slot -> chunk reference or None
    heap,              \* the EmptyEntitiesChunk instances, by reference
    call,              \* the last call made: its name and integer arguments
    raised,            \* the exception the last call raised, or NoError
    returned,          \* the chunk reference get_chunk returned
    zlib_lengths,      \* save(): per installed chunk, the length of what zlib.compress returned
    tree               \* Entity.save(): the tags of the compound returned

vars == <<x, z, entities_chunks, heap, call, raised, returned, zlib_lengths, tree>>


\* Entity.__init__: properties or {}
Entity(entity_id, ex, ey, ez, properties) ==
    [entity_id |-> entity_id, x |-> ex, y |-> ey, z |-> ez, properties |-> properties]

\* EmptyEntitiesChunk.__init__
EmptyEntitiesChunk(cx, cz) ==
    [x |-> cx, z |-> cz, version |-> DATA_VERSION, entities |-> <<>>]

(* ---------------------------------------------------------------------- *)
(* EmptyEntities: grid membership and the chunk grid                       *)
(* ---------------------------------------------------------------------- *)
\* EmptyEntities.inside(x, y, z, chunk)
inside(ix, iy, iz, chunk) ==
    LET factor == IF chunk THEN 32 ELSE 512
        rx == ix \div factor
        rz == iz \div factor
    IN  ~(rx # x \/ rz # z \/ iy < YMIN \/ iy > YMAX)

\* EmptyEntities.get_chunk(x, z): the exception raised and the reference returned
get_chunk(cx, cz) ==
    IF ~inside(cx, 0, cz, TRUE)
    THEN [err |-> Raise("OutOfBoundsCoordinates", ""), chunk |-> None]
    ELSE [err |-> NoError, chunk |-> entities_chunks[(cz % 32) * 32 + (cx % 32)]]

\* add_chunk with the two coordinates exchanged in the slot index
add_chunk_swapped(grid, ref, chunk) ==
    IF ~inside(chunk.x, 0, chunk.z, TRUE)
    THEN [err |-> Raise("OutOfBoundsCoordinates", ""), grid |-> grid]
    ELSE [err |-> NoError,
          grid |-> [grid EXCEPT ![(chunk.x % 32) * 32 + (chunk.z % 32)] = ref]]

\* add_chunk with the slot assigned before the coordinates are checked
add_chunk_assign_first(grid, ref, chunk) ==
    [err |-> IF ~inside(chunk.x, 0, chunk.z, TRUE)
             THEN Raise("OutOfBoundsCoordinates", "") ELSE NoError,
     grid |-> [grid EXCEPT ![(chunk.z % 32) * 32 + (chunk.x % 32)] = ref]]

\* EmptyEntities.add_chunk(chunk): the exception raised and the grid afterwards
add_chunk(grid, ref, chunk) ==
    IF ~inside(chunk.x, 0, chunk.z, TRUE)
    THEN [err |-> Raise("OutOfBoundsCoordinates", ""), grid |-> grid]
    ELSE [err |-> NoError,
          grid |-> [grid EXCEPT ![(chunk.z % 32) * 32 + (chunk.x % 32)] = ref]]

\* EmptyEntitiesChunk.add_entity storing the coordinates wrapped into the region
chunk_add_entity_wrapped(chunk, entity_id, ex, ey, ez, entity_properties) ==
    [chunk EXCEPT !.entities =
        Append(@, Entity(entity_id, ex % 512, ey, ez % 512, entity_properties))]

\* EmptyEntitiesChunk.add_entity: appends a new Entity to the chunk's list
chunk_add_entity(chunk, entity_id, ex, ey, ez, entity_properties) ==
    [chunk EXCEPT !.entities = Append(@, Entity(entity_id, ex, ey, ez, entity_properties))]

\* EmptyEntities.add_entity: the exception raised, the grid and the heap afterwards
add_entity(entity_id, ex, ey, ez, entity_properties) ==
    LET chunk_x == ex % 512
        chunk_z == ez % 512
    IN  IF ~inside(chunk_x, ey, chunk_z, FALSE)
        THEN [err |-> Raise("OutOfBoundsCoordinates", ""),
              grid |-> entities_chunks, heap |-> heap]
        ELSE
        LET cx == chunk_x \div 16
            cz == chunk_z \div 16
            got == get_chunk(cx, cz)
        IN  IF got.err # NoError
            THEN [err |-> got.err, grid |-> entities_chunks, heap |-> heap]
            ELSE IF got.chunk = None
            THEN \* a new chunk is constructed, installed, and given the entity
                 LET ref == Len(heap) + 1
                     new == EmptyEntitiesChunk(cx, cz)
                     added == add_chunk(entities_chunks, ref, new)
                 IN  IF added.err # NoError
                     THEN [err |-> added.err, grid |-> entities_chunks, heap |-> heap]
                     ELSE [err |-> NoError, grid |-> added.grid,
                           heap |-> Append(heap,
                               chunk_add_entity(new, entity_id, ex, ey, ez, entity_properties))]
            ELSE [err |-> NoError, grid |-> entities_chunks,
                  heap |-> [heap EXCEPT ![got.chunk] =
                      chunk_add_entity(@, entity_id, ex, ey, ez, entity_properties)]]

(* ---------------------------------------------------------------------- *)
(* Entity.save and EmptyEntitiesChunk.save: the NBT tree                    *)
(* ---------------------------------------------------------------------- *)
\* an nbt tag: its class, name, value, element class (TAG_List) and child tags
Node(tag, name, value, type, tags) ==
    [tag |-> tag, name |-> name, value |-> value, type |-> type, tags |-> tags]

\* the unnamed tags TAG_String(i) / TAG_Float(i) built for every i of a list value
list_tags(tag, value) ==
    [i \in 1..Len(value.l) |-> Node(tag, "", value.l[i], "", <<>>)]

\* the branch of the if/elif chain of Entity.save that a property value takes
property_branch(value) ==
    IF isinstance(value, "str") THEN "str"
    ELSE IF isinstance(value, "int") THEN "int"
    ELSE IF isinstance(value, "float") THEN "float"
    ELSE IF isinstance(value, "bool") THEN "bool"
    ELSE IF isinstance(value, "list") THEN "list"
    ELSE "else"

\* the loop over self.properties.items() of Entity.save, from the k-th item on:
\* tags is new_entity.tags so far, new_list the local variable new_list
\* (<<>> while it is unbound, <<tag>> once it is bound)
RECURSIVE save_properties(_, _, _, _)
save_properties(properties, k, tags, new_list) ==
    IF k > Len(properties) THEN [err |-> NoError, tags |-> tags]
    ELSE
    LET key == properties[k].key
        value == properties[k].value
        branch == property_branch(value)
    IN  CASE branch = "str" ->
               save_properties(properties, k + 1,
                   Append(tags, Node("TAG_String", key, value, "", <<>>)), new_list)
          [] branch = "int" ->
               save_properties(properties, k + 1,
                   Append(tags, Node("TAG_Int", key, value, "", <<>>)), new_list)
          [] branch = "float" ->
               save_properties(properties, k + 1,
                   Append(tags, Node("TAG_Float", key, value, "", <<>>)), new_list)
          [] branch = "bool" ->
               save_properties(properties, k + 1,
                   Append(tags, Node("TAG_Byte", key, value, "", <<>>)), new_list)
          [] branch = "list" ->
               IF Len(value.l) = 0
               THEN \* value[0] of an empty list
                    [err |-> Raise("IndexError", ""), tags |-> tags]
               ELSE
               LET bound ==
                     IF isinstance(value.l[1], "str")
                     THEN << Node("TAG_List", key, PyNone, "TAG_String",
                                  list_tags("TAG_String", value)) >>
                     ELSE IF isinstance(value.l[1], "float")
                     THEN << Node("TAG_List", key, PyNone, "TAG_Float",
                                  list_tags("TAG_Float", value)) >>
                     ELSE new_list
               IN  IF bound = <<>>
                   THEN \* new_list is read before any assignment to it
                        [err |-> Raise("UnboundLocalError", ""), tags |-> tags]
                   ELSE save_properties(properties, k + 1, Append(tags, bound[1]), bound)
          [] OTHER -> [err |-> Raise("TypeError", key), tags |-> tags]

\* Entity.save(): the exception raised and the tags of the TAG_Compound returned
entity_save(entity) ==
    LET id == Node("TAG_String", "id", PyStr(entity.entity_id), "", <<>>)
        position == Node("TAG_List", "Pos", PyNone, "TAG_Double",
                         << Node("TAG_Double", "", PyInt(entity.x), "", <<>>),
                            Node("TAG_Double", "", PyInt(entity.y), "", <<>>),
                            Node("TAG_Double", "", PyInt(entity.z), "", <<>>) >>)
    IN  save_properties(entity.properties, 1, <<id, position>>, <<>>)

\* the loop over self.entities of EmptyEntitiesChunk.save, from the k-th entity on
RECURSIVE save_entities(_, _, _)
save_entities(entities, k, tags) ==
    IF k > Len(entities) THEN [err |-> NoError, tags |-> tags]
    ELSE LET saved == entity_save(entities[k])
         IN  IF saved.err # NoError THEN [err |-> saved.err, tags |-> tags]
             ELSE save_entities(entities, k + 1,
                      Append(tags, Node("TAG_Compound", "", PyNone, "", saved.tags)))

\* EmptyEntitiesChunk.save(): the exception raised and the tags of the NBTFile returned
chunk_save(chunk) ==
    LET position == Node("TAG_Int_Array", "Position",
                         PyList(<<PyInt(chunk.x), PyInt(chunk.z)>>), "", <<>>)
        version == Node("TAG_Int", "DataVersion", PyInt(chunk.version), "", <<>>)
        saved == save_entities(chunk.entities, 1, <<>>)
    IN  IF saved.err # NoError THEN [err |-> saved.err, tags |-> <<>>]
        ELSE [err |-> NoError,
              tags |-> << version, position,
                          Node("TAG_List", "Entities", PyNone, "TAG_Compound", saved.tags) >>]

(* ---------------------------------------------------------------------- *)
(* EmptyEntities.save: packing the chunks into sectors                     *)
(* ---------------------------------------------------------------------- *)
\* zlib.compress of the bytes nbt_data.write_file produces for a chunk: a
\* zlib stream of the given length (header 0x78 0x9C, then a body without
\* zero bytes whose first byte depends on the chunk's tree)
DeflateBody == [i \in 1..SECTOR |-> 1 + (i % 255)]
zlib_compress(nbt_data, length) ==
    LET position == nbt_data[2].value.l
        seed == 7 * Len(nbt_data[3].tags) + 3 * (position[1].n % 32) + 5 * (position[2].n % 32)
    IN  <<120, 156, 1 + (seed % 255)>> \o SubSeq(DeflateBody, 1, length - 3)

\* first loop of save: the exception of the first chunk.save() that raises,
\* the slots being visited in increasing order; `present` are the slots
\* whose chunk is not None
first_save_error(present) ==
    LET failing == {i \in present : chunk_save(heap[entities_chunks[i]]).err # NoError}
    IN  IF failing = {} THEN NoError
        ELSE LET i == CHOOSE i \in failing : \A j \in failing : i <= j
             IN  chunk_save(heap[entities_chunks[i]]).err

\* first loop of save over the slots in `todo`: the list chunks_data (<<>> is
\* None, the entry of a slot whose chunk is None; <<b>> is bytes b);
\* lengths[ref] is the length of the compressed data of the chunk instance ref
NoData == [i \in Slots |-> <<>>]
RECURSIVE compress_chunks(_, _, _)
compress_chunks(lengths, todo, chunks_data) ==
    IF todo = {} THEN chunks_data
    ELSE
    LET i == CHOOSE i \in todo : \A j \in todo : i <= j
        chunk == entities_chunks[i]
        chunk_data == zlib_compress(chunk_save(heap[chunk]).tags, lengths[chunk])
    IN  compress_chunks(lengths, todo \ {i}, [chunks_data EXCEPT ![i] = <<chunk_data>>])

\* padding that is only the remainder, bytes(len(b) % 4096)
padding_remainder(len) == bytes(len % SECTOR)

\* the padding bytes(4096 - (len(b) % 4096)) appended to a chunk's payload and to the file
padding(len) == bytes(SECTOR - (len % SECTOR))

\* second loop of save over the slots in `todo`, in increasing order (a slot
\* whose data is None only gets the offset None and is skipped): chunks_bytes
\* and offsets so far (an offset is <<>> for None, else
\* << <<sector_offset, sector_count>> >>)
NoOffsets == [i \in Slots |-> <<>>]
RECURSIVE pack_chunks(_, _, _, _)
pack_chunks(data, todo, chunks_bytes, offsets) ==
    IF todo = {} THEN [chunks_bytes |-> chunks_bytes, offsets |-> offsets]
    ELSE
    LET i == CHOOSE i \in todo : \A j \in todo : i <= j
        chunk == data[i][1]
        to_add == to_bytes(Len(chunk) + 1, 4) \o <<2>> \o chunk
        sector_offset == Len(chunks_bytes) \div SECTOR
        sector_count == ceil_div(Len(to_add), SECTOR)
        padded == to_add \o padding(Len(to_add))
    IN  pack_chunks(data, todo \ {i}, chunks_bytes \o padded,
                    [offsets EXCEPT ![i] = << <<sector_offset, sector_count>> >>])

\* location_entry without the two header sectors added to the sector offset
location_entry_no_header(offset) == to_bytes(offset[1], 3) \o to_bytes(offset[2], 1)

\* third loop of save: the four bytes of a slot whose offset is
\* (sector offset, sector count)
location_entry(offset) == to_bytes(offset[1] + 2, 3) \o to_bytes(offset[2], 1)

\* third loop of save over the slots in `todo`, in increasing order:
\* locations_header, in which the entry of a slot whose offset is None is
\* bytes(4) and the entry of slot i, at bytes 4i .. 4i+3, is otherwise its
\* location_entry
RECURSIVE locations(_, _, _)
locations(offsets, todo, locations_header) ==
    IF todo = {} THEN locations_header
    ELSE
    LET i == CHOOSE i \in todo : \A j \in todo : i <= j
        entry == location_entry(offsets[i][1])
    IN  locations(offsets, todo \ {i},
            SubSeq(locations_header, 1, 4 * i) \o entry
                \o SubSeq(locations_header, 4 * i + 5, Len(locations_header)))

\* EmptyEntities.save(): the exception raised, the locals chunks_data,
\* chunks_bytes and offsets, and the bytes returned; `present` are the slots
\* whose chunk is not None
save(present, lengths) ==
    LET failed(type) == [err |-> Raise(type, ""), chunks_data |-> <<>>,
                         chunks_bytes |-> <<>>, offsets |-> <<>>, final |-> <<>>]
    IN  IF first_save_error(present) # NoError
        THEN [failed("") EXCEPT !.err = first_save_error(present)]
        ELSE
        LET data == compress_chunks(lengths, present, NoData)
            packed == pack_chunks(data, present, <<>>, NoOffsets)
        IN  IF \E i \in present : ~fits(Len(data[i][1]) + 1, 4)
            THEN failed("OverflowError")
            ELSE IF \E i \in present : \/ ~fits(packed.offsets[i][1][1] + 2, 3)
                                       \/ ~fits(packed.offsets[i][1][2], 1)
            THEN failed("OverflowError")
            ELSE
            LET locations_header == locations(packed.offsets, present, bytes(4 * NSLOTS))
                timestamps_header == bytes(SECTOR)
                unpadded == locations_header \o timestamps_header \o packed.chunks_bytes
                padded == unpadded \o padding(Len(unpadded))
            IN  IF Len(padded) % SECTOR # 0
                THEN failed("AssertionError")
                ELSE [err |-> NoError, chunks_data |-> data,
                      chunks_bytes |-> packed.chunks_bytes,
                      offsets |-> packed.offsets, final |-> padded]

(* ---------------------------------------------------------------------- *)
(* Region: the reader                                                      *)
(* ---------------------------------------------------------------------- *)
\* Region.header_offset(chunk_x, chunk_z)
header_offset(chunk_x, chunk_z) == 4 * ((chunk_x % 32) + (chunk_z % 32) * 32)

\* Region.chunk_location(chunk_x, chunk_z) on the region file `data`
chunk_location(data, chunk_x, chunk_z) ==
    LET b_off == header_offset(chunk_x, chunk_z)
        off == from_bytes(Slice(data, b_off, b_off + 3))
        sectors == data[b_off + 3 + 1]
    IN  <<off, sectors>>

\* DECOMPRESSION_TABLE: the compression ids that have a decompression method
DECOMPRESSION_TABLE == {1, 2, 3}

\* Region.chunk_data(chunk_x, chunk_z) on the region file `data`, up to the call
\* of the decompression method: the exception raised, whether None is
\* returned, and the length, compression id and compressed data read
chunk_data(data, chunk_x, chunk_z) ==
    LET loc == chunk_location(data, chunk_x, chunk_z)
        absent == [err |-> NoError, none |-> TRUE, length |-> 0, compression |-> 0,
                   compressed_data |-> <<>>]
    IN  IF loc = <<0, 0>> THEN absent
        ELSE
        LET off == loc[1] * SECTOR
            data_start == off + 5
            length == from_bytes(Slice(data, off, data_start - 1))
            compression == data[data_start - 1 + 1]
            compressed_data == Slice(data, data_start, data_start + length - 1)
        IN  IF compression = 127
            THEN [absent EXCEPT !.err = Raise("UnknownCompressionSchema", ""), !.none = FALSE]
            ELSE IF compression \notin DECOMPRESSION_TABLE
            THEN [absent EXCEPT !.err = Raise("UnknownCompressionSchema", ""), !.none = FALSE]
            ELSE [err |-> NoError, none |-> FALSE, length |-> length,
                  compression |-> compression, compressed_data |-> compressed_data]

(* ---------------------------------------------------------------------- *)
(* The calls a program makes on a region                                   *)
(* ---------------------------------------------------------------------- *)
Call(op, args) == [op |-> op, args |-> args]

\* the slots that hold a chunk, and the references they hold
Present == {i \in Slots : entities_chunks[i] # None}
Installed == {entities_chunks[i] : i \in Present}

\* EmptyEntities(x, z)
Init ==
    /\ \E r \in Regions : x = r[1] /\ z = r[2]
    /\ entities_chunks = [i \in Slots |-> None]
    /\ heap = <<>>
    /\ call = Call("EmptyEntities", <<>>)
    /\ raised = NoError
    /\ returned = None
    /\ zlib_lengths = <<>>
    /\ tree = <<>>

\* chunk = EmptyEntitiesChunk(cx, cz), made by the caller
NewChunk(cx, cz) ==
    /\ Len(heap) < MaxChunks
    /\ heap' = Append(heap, EmptyEntitiesChunk(cx, cz))
    /\ call' = Call("EmptyEntitiesChunk", <<cx, cz>>)
    /\ raised' = NoError
    /\ returned' = None /\ zlib_lengths' = <<>> /\ tree' = <<>>
    /\ UNCHANGED <<x, z, entities_chunks>>

\* region.add_chunk(chunk) for the chunk instance `ref`
AddChunk(ref) ==
    LET r == add_chunk(entities_chunks, ref, heap[ref])
    IN  /\ entities_chunks' = r.grid
        /\ call' = Call("add_chunk", <<ref>>)
        /\ raised' = r.err
        /\ returned' = None /\ zlib_lengths' = <<>> /\ tree' = <<>>
        /\ UNCHANGED <<x, z, heap>>

\* region.get_chunk(cx, cz)
GetChunk(cx, cz) ==
    LET r == get_chunk(cx, cz)
    IN  /\ call' = Call("get_chunk", <<cx, cz>>)
        /\ raised' = r.err
        /\ returned' = r.chunk
        /\ zlib_lengths' = <<>> /\ tree' = <<>>
        /\ UNCHANGED <<x, z, entities_chunks, heap>>

\* the number of entities held by the first n chunk instances
RECURSIVE EntityCount(_, _)
EntityCount(chunks, n) ==
    IF n = 0 THEN 0 ELSE Len(chunks[n].entities) + EntityCount(chunks, n - 1)

\* region.add_entity("minecraft:villager", ex, ey, ez, entity_properties)
AddEntity(ex, ey, ez, entity_properties) ==
    LET r == add_entity("minecraft:villager", ex, ey, ez, entity_properties)
    IN  /\ Len(r.heap) <= MaxChunks
        /\ EntityCount(r.heap, Len(r.heap)) <= MaxEntities
        /\ entities_chunks' = r.grid
        /\ heap' = r.heap
        /\ call' = Call("add_entity", <<ex, ey, ez>>)
        /\ raised' = r.err
        /\ returned' = None /\ zlib_lengths' = <<>> /\ tree' = <<>>
        /\ UNCHANGED <<x, z>>

\* region.save(); zlib's output for each installed chunk has one of ZlibLengths.
\* save() leaves the region as it is, so a save() that directly follows a
\* save() returns nothing a save() in its place does not: it is not repeated.
Save ==
    /\ call.op # "save"
    /\ \E present \in {Present} :
           \E lengths \in [{entities_chunks[i] : i \in present} -> ZlibLengths] :
               \E r \in {save(present, lengths)} :
                   /\ call' = Call("save", <<>>)
                   /\ raised' = r.err
                   /\ zlib_lengths' = lengths
                   /\ returned' = None /\ tree' = <<>>
                   /\ UNCHANGED <<x, z, entities_chunks, heap>>

\* chunk.entities[k].save() for the chunk instance `ref`
EntitySave(ref, k) ==
    LET r == entity_save(heap[ref].entities[k])
    IN  /\ call' = Call("Entity.save", <<ref, k>>)
        /\ raised' = r.err
        /\ tree' = IF r.err = NoError THEN r.tags ELSE <<>>
        /\ returned' = None /\ zlib_lengths' = <<>>
        /\ UNCHANGED <<x, z, entities_chunks, heap>>

\* chunk.save() for the chunk instance `ref`
ChunkSave(ref) ==
    LET r == chunk_save(heap[ref])
    IN  /\ call' = Call("EmptyEntitiesChunk.save", <<ref>>)
        /\ raised' = r.err
        /\ tree' = r.tags
        /\ returned' = None /\ zlib_lengths' = <<>>
        /\ UNCHANGED <<x, z, entities_chunks, heap>>

Next ==
    \/ \E c \in ChunkCoords : NewChunk(c[1], c[2])
    \/ \E ref \in 1..Len(heap) : AddChunk(ref)
    \/ \E c \in ChunkCoords : GetChunk(c[1], c[2])
    \/ \E p \in EntityPositions, props \in RegionProperties : AddEntity(p[1], p[2], p[3], props)
    \/ Save

Spec == Init /\ [][Next]_vars

(* ---------------------------------------------------------------------- *)
(* Entity.save on its own: a region (0, 0) that was given one entity with   *)
(* any property dict, which is then saved, by itself or with its chunk      *)
(* ---------------------------------------------------------------------- *)
\* EmptyEntities(0, 0).add_entity("minecraft:villager", 5, 70, 5, d)
InitEntity ==
    \E d \in PropertyDicts :
        /\ x = 0 /\ z = 0
        /\ heap = << chunk_add_entity(EmptyEntitiesChunk(0, 0),
                                     "minecraft:villager", 5, 70, 5, d) >>
        /\ entities_chunks = [i \in Slots |-> IF i = 0 THEN 1 ELSE None]
        /\ call = Call("add_entity", <<5, 70, 5>>)
        /\ raised = NoError
        /\ returned = None
        /\ zlib_lengths = <<>>
        /\ tree = <<>>

NextEntity ==
    \/ \E ref \in 1..Len(heap) : \E k \in 1..Len(heap[ref].entities) : EntitySave(ref, k)
    \/ \E ref \in 1..Len(heap) : ChunkSave(ref)

SpecEntity == InitEntity /\ [][NextEntity]_vars

(* ---------------------------------------------------------------------- *)
(* Properties                                                              *)
(* ---------------------------------------------------------------------- *)
\* what the last call, a save(), computed: its locals and the bytes it returned
Saved == save(Present, zlib_lengths)
SaveCalled == call.op = "save"
SaveReturned == SaveCalled /\ raised = NoError

\* C1: a region in which no slot holds a chunk saves to exactly 8192 bytes,
\* the all-zero location table followed by the all-zero timestamp table
C1_EmptyRegionSavesTwoSectors ==
    (SaveCalled /\ Installed = {}) =>
        /\ raised = NoError
        /\ Len(Saved.final) = 2 * SECTOR
        /\ \A b \in 1..(2 * SECTOR) : Saved.final[b] = 0

\* the entity whose save() the last call ran (the first one of the chunk for chunk.save())
SavedEntity ==
    heap[call.args[1]].entities[IF call.op = "Entity.save" THEN call.args[2] ELSE 1]

\* C2: Entity.save() turns every boolean property into a TAG_Byte of value 0
\* or 1, never a TAG_Int, and every non-boolean integer into a TAG_Int
C2_BooleanSavesAsByte ==
    (call.op = "Entity.save" /\ raised = NoError) =>
        \A k \in DOMAIN SavedEntity.properties :
            LET value == SavedEntity.properties[k].value
                tag == tree[k + 2]
            IN  /\ value.t = "bool" =>
                    tag.tag = "TAG_Byte" /\ tag.value.n \in {0, 1}
                /\ value.t = "int" => tag.tag = "TAG_Int"

\* C3: add_entity raises OutOfBoundsCoordinates exactly when the position
\* (x, y, z) is not inside the region, and succeeds when it is inside
C3_AddEntityRaisesIffOutside ==
    call.op = "add_entity" =>
        LET in_region == /\ call.args[1] \div 512 = x
                         /\ call.args[3] \div 512 = z
                         /\ call.args[2] >= YMIN
                         /\ call.args[2] <= YMAX
        IN  /\ (raised.type = "OutOfBoundsCoordinates") <=> ~in_region
            /\ in_region => raised = NoError

\* the property values C4 is about: an empty list, a list whose first element
\* is neither a string nor a float, a value of any other unsupported type
Unsupported(value) ==
    \/ value.t \notin {"str", "int", "bool", "float", "list"}
    \/ value.t = "list" /\ Len(value.l) = 0
    \/ value.t = "list" /\ Len(value.l) > 0 /\ value.l[1].t \notin {"str", "float"}

\* C4: saving an entity (by itself or with its chunk) that has an unsupported
\* property value fails with the unsupported-type error naming the first
\* such key, and builds no tag
C4_UnsupportedPropertyRaises ==
    (call.op \in {"Entity.save", "EmptyEntitiesChunk.save"}) =>
        LET properties == SavedEntity.properties
            bad == {k \in DOMAIN properties : Unsupported(properties[k].value)}
        IN  bad # {} =>
                LET k == CHOOSE k \in bad : \A j \in bad : k <= j
                IN  /\ raised = Raise("TypeError", properties[k].key)
                    /\ tree = <<>>

\* chunk coordinates of this region for a slot
SlotX(i) == 32 * x + (i % 32)
SlotZ(i) == 32 * z + (i \div 32)

\* C5: save() never fails its assertion, and the bytes it returns have a
\* length that is a positive multiple of 4096
C5_SaveLengthMultipleOfSector ==
    SaveCalled =>
        /\ raised.type # "AssertionError"
        /\ raised = NoError =>
              Len(Saved.final) > 0 /\ Len(Saved.final) % SECTOR = 0

C5_Witness ==
    /\ SaveReturned
    /\ Cardinality(Installed) = 2
    /\ Len(Saved.final) >= 5 * SECTOR
    /\ Len(Saved.final) % SECTOR = 0

\* C6: the reader Region, given the bytes save() returned, reports location
\* (0, 0) exactly for the empty slots and reads, for every occupied slot, the
\* length compressed length + 1, the compression id 2 and exactly the
\* compressed bytes the writer produced for that slot's chunk
C6_WriteThenRead ==
    SaveReturned =>
        LET s == Saved
        IN  \A i \in Slots :
                LET location == chunk_location(s.final, SlotX(i), SlotZ(i))
                    read == chunk_data(s.final, SlotX(i), SlotZ(i))
                IN  /\ (location = <<0, 0>>) <=> (entities_chunks[i] = None)
                    /\ entities_chunks[i] # None =>
                          /\ read.err = NoError
                          /\ ~read.none
                          /\ read.length = Len(s.chunks_data[i][1]) + 1
                          /\ read.compression = 2
                          /\ read.compressed_data = s.chunks_data[i][1]

C6_Witness ==
    /\ SaveReturned
    /\ Cardinality(Present) = 2
    /\ \E i \in Present :
          /\ chunk_data(Saved.final, SlotX(i), SlotZ(i)).compressed_data
                = Saved.chunks_data[i][1]
          /\ chunk_location(Saved.final, SlotX(i), SlotZ(i))[1] > 2

\* whether chunk coordinates lie in this region
ChunkInRegion(cx, cz) == cx \div 32 = x /\ cz \div 32 = z

\* C7: add_chunk of a chunk of this region succeeds (also on an occupied
\* slot) and get_chunk at its coordinates then returns that very instance;
\* add_chunk and get_chunk at coordinates outside the region raise
\* OutOfBoundsCoordinates
C7_AddChunkThenGetChunk ==
    /\ call.op = "add_chunk" =>
          LET ref == call.args[1]
              chunk == heap[ref]
          IN  IF ChunkInRegion(chunk.x, chunk.z)
              THEN /\ raised = NoError
                   /\ get_chunk(chunk.x, chunk.z) = [err |-> NoError, chunk |-> ref]
              ELSE raised.type = "OutOfBoundsCoordinates"
    /\ call.op = "get_chunk" =>
          IF ChunkInRegion(call.args[1], call.args[2])
          THEN raised = NoError
          ELSE raised.type = "OutOfBoundsCoordinates"
    /\ \A c \in ChunkCoords :
          ~ChunkInRegion(c[1], c[2]) =>
              get_chunk(c[1], c[2]).err.type = "OutOfBoundsCoordinates"

C7_Witness ==
    /\ call.op = "add_chunk"
    /\ raised = NoError
    /\ heap[call.args[1]].x % 32 # heap[call.args[1]].z % 32
    /\ get_chunk(heap[call.args[1]].x, heap[call.args[1]].z).chunk = call.args[1]

\* C8: an add_chunk or add_entity that raises leaves the grid and every
\* chunk (its entity list included) as they were before the call
C8_FailedAddChangesNothing ==
    [][ (call'.op \in {"add_chunk", "add_entity"} /\ raised' # NoError)
            => (entities_chunks' = entities_chunks /\ heap' = heap) ]_vars

C8_Witness ==
    /\ call.op \in {"add_chunk", "add_entity"}
    /\ raised # NoError
    /\ Present # {}

\* C9: every present chunk occupies exactly sector_count sectors of the
\* chunk-data buffer, sector_count being ceil(payload length / 4096): the
\* next present chunk starts sector_count sectors after it, and the buffer
\* ends sector_count sectors after the last one
C9_PayloadPaddedToNextBoundary ==
    SaveReturned =>
        LET s == Saved
        IN  \A i \in Present :
                LET offset == s.offsets[i][1]
                    later == {j \in Present : j > i}
                    end == IF later = {} THEN Len(s.chunks_bytes) \div SECTOR
                           ELSE s.offsets[CHOOSE j \in later : \A k \in later : j <= k][1][1]
                IN  /\ offset[2] = ceil_div(Len(s.chunks_data[i][1]) + 5, SECTOR)
                    /\ end = offset[1] + offset[2]

\* C10: in the bytes save() returns, every present chunk's location entry
\* has sector offset >= 2 and sector count >= 1, its sectors end within the
\* buffer, and the sector ranges of two present chunks are disjoint
C10_SectorRangesValid ==
    SaveReturned =>
        LET final == Saved.final
            location(i) == chunk_location(final, SlotX(i), SlotZ(i))
        IN  \A i \in Present :
                /\ location(i)[1] >= 2
                /\ location(i)[2] >= 1
                /\ (location(i)[1] + location(i)[2]) * SECTOR <= Len(final)
                /\ \A j \in Present \ {i} :
                      \/ location(i)[1] + location(i)[2] <= location(j)[1]
                      \/ location(j)[1] + location(j)[2] <= location(i)[1]

C10_Witness ==
    /\ SaveReturned
    /\ Cardinality(Present) = 2
    /\ \E i \in Present :
          /\ chunk_location(Saved.final, SlotX(i), SlotZ(i))[2] = 2
          /\ chunk_location(Saved.final, SlotX(i), SlotZ(i))[1] = 2

\* C11: a successful add_entity(x, y, z) leaves in the slot
\* ((z mod 512) // 16) * 32 + ((x mod 512) // 16) a chunk (the one the slot
\* held, or a new empty one with the slot's coordinates when it held none)
\* whose entity list is the list before the call followed by the new entity
\* with its un-wrapped x, y, z; no other slot and no other chunk changes
C11_AddEntityAppendsToRoutedChunk ==
    [][ (call'.op = "add_entity" /\ raised' = NoError) =>
            LET ex == call'.args[1]
                ey == call'.args[2]
                ez == call'.args[3]
                cx == (ex % 512) \div 16
                cz == (ez % 512) \div 16
                i == cz * 32 + cx
                old == entities_chunks[i]
                ref == entities_chunks'[i]
                before == IF old = None THEN <<>> ELSE heap[old].entities
            IN  /\ ref # None
                /\ IF old = None
                   THEN /\ ref = Len(heap) + 1
                        /\ Len(heap') = Len(heap) + 1
                        /\ heap'[ref].x = cx /\ heap'[ref].z = cz
                   ELSE /\ ref = old
                        /\ Len(heap') = Len(heap)
                        /\ heap'[ref].x = heap[ref].x /\ heap'[ref].z = heap[ref].z
                /\ \E props \in RegionProperties :
                      heap'[ref].entities =
                          Append(before, Entity("minecraft:villager", ex, ey, ez, props))
                /\ entities_chunks' = [entities_chunks EXCEPT ![i] = ref]
                /\ \A r \in 1..Len(heap) : r # ref => heap'[r] = heap[r] ]_vars

\* a second, different entity was appended to the chunk an earlier call made
C11_Witness ==
    /\ call.op = "add_entity"
    /\ raised = NoError
    /\ \E i \in Present :
          LET entities == heap[entities_chunks[i]].entities
          IN  /\ Len(entities) = 2
              /\ entities[1] # entities[2]
              /\ entities[2].x = call.args[1]

====
